---- MODULE Spec2Model ----
(***************************************************************************)
(* A model of the timeseries crate (src/src/lib.rs, src/src/index.rs):     *)
(* the TimeSeries container, its constructors, its lookups and merge.      *)
(*                                                                         *)
(* A Vec is a sequence; Rust's 0-based position pos is element pos+1.      *)
(* An f64 value is an integer here: the operations modelled copy values,   *)
(* pad with 0.0 and subtract, all exact on the small integers used.  A     *)
(* panic (an out-of-bounds Vec access, unwrap of None) is the outcome      *)
(* Panic.                                                                  *)
(***************************************************************************)
EXTENDS Integers, Sequences, FiniteSets, TLC

\* Bounds of the model: the longest input sequence, the largest timestamp.
MaxLen == 2
MaxTs == 1

Timestamps == 0..MaxTs
\* The values of the inputs.  The code never inspects a value: it copies it,
\* pads with 0.0 (new) and subtracts (diff), so 0.0 and one other value show
\* every case.
Vals == {0, 1}
Positions == 0..(MaxTs + 2)
Queries == (0 - 1)..(MaxTs + 1)

SeqsUpTo(S, n) == UNION {[1..k -> S] : k \in 0..n}

\* Outcomes of an operation.
Some(dp) == [tag |-> "Some", dp |-> dp]
None == [tag |-> "None"]
Panic == [tag |-> "panic"]
Ok(v) == [tag |-> "Ok", val |-> v]

\* Iterator::take(n) followed by collect.
Take(s, n) == SubSeq(s, 1, IF n < Len(s) THEN n ELSE Len(s))

\* Vec::resize(new_len, value).
Resize(vs, new_len, value) ==
    [k \in 1..new_len |-> IF k <= Len(vs) THEN vs[k] ELSE value]

DataPoint_new(timestamp, value) == [timestamp |-> timestamp, value |-> value]

DataPoints == {DataPoint_new(t, v) : t \in Timestamps, v \in Vals}

DateTimeIndex_new(values) == [values |-> values]

DateTimeIndex_len(self) == Len(self.values)

\* A bounds-checked variant of the indexing below: absent instead of a panic.
DateTimeIndex_index_checked(self, pos) ==
    IF pos < Len(self.values) THEN Ok(self.values[pos + 1]) ELSE None

\* impl Index<usize> for DateTimeIndex: &self.values[pos].
DateTimeIndex_index(self, pos) ==
    IF pos < Len(self.values) THEN Ok(self.values[pos + 1]) ELSE Panic

TimeSeries(index, values) == [index |-> index, values |-> values]

\* A variant of new that cuts the index at its first non-increasing timestamp.
RECURSIVE increasing_run(_, _)
increasing_run(index, i) ==
    IF i >= Len(index) THEN Len(index)
    ELSE IF index[i + 1] <= index[i] THEN i
    ELSE increasing_run(index, i + 1)

TimeSeries_new_truncating(index, values) ==
    LET size == IF Len(index) = 0 THEN 0 ELSE increasing_run(index, 1)
        n == IF Len(values) < size THEN Len(values) ELSE size
    IN  TimeSeries(DateTimeIndex_new(Take(index, n)), Take(values, n))

\* A variant of new that forgets to resize the values.
TimeSeries_new_unresized(index, values) ==
    TimeSeries(DateTimeIndex_new(index), values)

\* A variant of new that pairs timestamps with values and drops the rest.
TimeSeries_new_zipped(index, values) ==
    LET n == IF Len(values) < Len(index) THEN Len(values) ELSE Len(index)
    IN  TimeSeries(DateTimeIndex_new(Take(index, n)), Take(values, n))

TimeSeries_new(index, values) ==
    IF Len(index) # Len(values)
    THEN TimeSeries(DateTimeIndex_new(index), Resize(values, Len(index), 0))
    ELSE TimeSeries(DateTimeIndex_new(index), values)

empty == TimeSeries_new(<<>>, <<>>)

len(self) == DateTimeIndex_len(self.index)

\* A variant of the loop below that breaks on < instead of <=.
RECURSIVE from_datapoints_size_nonstrict(_, _, _)
from_datapoints_size_nonstrict(datapoints, i, size) ==
    IF i >= Len(datapoints) THEN size
    ELSE IF datapoints[i + 1].timestamp < datapoints[i].timestamp THEN size
    ELSE from_datapoints_size_nonstrict(datapoints, i + 1, i + 1)

\* The loop of from_datapoints: the size it ends with, entered at i with size.
RECURSIVE from_datapoints_size(_, _, _)
from_datapoints_size(datapoints, i, size) ==
    IF i >= Len(datapoints) THEN size
    ELSE IF datapoints[i + 1].timestamp <= datapoints[i].timestamp THEN size
    ELSE from_datapoints_size(datapoints, i + 1, i + 1)

from_datapoints(datapoints) ==
    LET size == from_datapoints_size(datapoints, 1, 1)
        taken == Take(datapoints, size)
        index == [k \in 1..Len(taken) |-> taken[k].timestamp]
        values == [k \in 1..Len(taken) |-> taken[k].value]
    IN  TimeSeries(DateTimeIndex_new(index), values)

\* FromIterator<DataPoint>: the iterator's items collected, then from_datapoints.
from_iter(items) == from_datapoints(items)

\* A variant of nth whose bound is off by one.
nth_off_by_one(self, pos) ==
    IF pos <= Len(self.index.values)
    THEN IF pos < Len(self.values) /\ pos < Len(self.index.values)
         THEN Some(DataPoint_new(self.index.values[pos + 1], self.values[pos + 1]))
         ELSE Panic
    ELSE None

nth(self, pos) ==
    IF pos < len(self)
    THEN IF pos < Len(self.values) /\ DateTimeIndex_index(self.index, pos).tag = "Ok"
         THEN Some(DataPoint_new(DateTimeIndex_index(self.index, pos).val,
                                 self.values[pos + 1]))
         ELSE Panic
    ELSE None

\* Iterator::position(|&ts| timestamp < ts) over the index, scanning from i.
RECURSIVE position(_, _, _)
position(values, timestamp, i) ==
    IF i >= Len(values) THEN None
    ELSE IF timestamp < values[i + 1] THEN Ok(i)
    ELSE position(values, timestamp, i + 1)

at(self, timestamp) ==
    LET found == position(self.index.values, timestamp, 0)
        pos == IF found.tag = "Ok" THEN found.val ELSE len(self)
    IN  IF pos > 0
        THEN IF pos - 1 < Len(self.values) THEN Ok(self.values[pos]) ELSE Panic
        ELSE Ok(0)

\* A variant of diff that keeps the first timestamps instead of the last ones.
diff_unshifted(self) ==
    IF len(self) < 2 THEN Ok(empty)
    ELSE IF Len(self.values) < len(self) THEN Panic
    ELSE LET index == SubSeq(self.index.values, 1, Len(self.index.values) - 1)
             new_values == [k \in 1..(len(self) - 1) |->
                               self.values[k + 1] - self.values[k]]
         IN  Ok(TimeSeries_new(index, new_values))

diff(self) ==
    IF len(self) < 2 THEN Ok(empty)
    ELSE IF Len(self.values) < len(self) THEN Panic
    ELSE LET index == SubSeq(self.index.values, 2, Len(self.index.values))
             new_values == [k \in 1..(len(self) - 1) |->
                               self.values[k + 1] - self.values[k]]
         IN  Ok(TimeSeries_new(index, new_values))

\* A variant of the loop below that takes other's point on equal timestamps.
RECURSIVE merge_loop_right_biased(_, _, _, _, _)
merge_loop_right_biased(self, other, pos1, pos2, output) ==
    IF ~(pos1 < len(self) \/ pos2 < len(other)) THEN Ok(output)
    ELSE IF pos1 = len(self) THEN
        LET o2 == nth(other, pos2)
        IN  IF o2.tag # "Some" THEN Panic
            ELSE merge_loop_right_biased(self, other, pos1, pos2 + 1,
                                         Append(output, o2.dp))
    ELSE IF pos2 = len(other) THEN
        LET o1 == nth(self, pos1)
        IN  IF o1.tag # "Some" THEN Panic
            ELSE merge_loop_right_biased(self, other, pos1 + 1, pos2,
                                         Append(output, o1.dp))
    ELSE
        LET o1 == nth(self, pos1)
            o2 == nth(other, pos2)
        IN  IF o1.tag # "Some" \/ o2.tag # "Some" THEN Panic
            ELSE IF o1.dp.timestamp = o2.dp.timestamp
            THEN merge_loop_right_biased(self, other, pos1 + 1, pos2 + 1,
                                         Append(output, o2.dp))
            ELSE IF o1.dp.timestamp < o2.dp.timestamp
            THEN merge_loop_right_biased(self, other, pos1 + 1, pos2,
                                         Append(output, o1.dp))
            ELSE merge_loop_right_biased(self, other, pos1, pos2 + 1,
                                         Append(output, o2.dp))

\* The while loop of merge: the output it ends with, entered at pos1, pos2.
RECURSIVE merge_loop(_, _, _, _, _)
merge_loop(self, other, pos1, pos2, output) ==
    IF ~(pos1 < len(self) \/ pos2 < len(other)) THEN Ok(output)
    ELSE IF pos1 = len(self) THEN
        LET o2 == nth(other, pos2)
        IN  IF o2.tag # "Some" THEN Panic
            ELSE merge_loop(self, other, pos1, pos2 + 1, Append(output, o2.dp))
    ELSE IF pos2 = len(other) THEN
        LET o1 == nth(self, pos1)
        IN  IF o1.tag # "Some" THEN Panic
            ELSE merge_loop(self, other, pos1 + 1, pos2, Append(output, o1.dp))
    ELSE
        LET o1 == nth(self, pos1)
            o2 == nth(other, pos2)
        IN  IF o1.tag # "Some" \/ o2.tag # "Some" THEN Panic
            ELSE IF o1.dp.timestamp = o2.dp.timestamp
            THEN merge_loop(self, other, pos1 + 1, pos2 + 1, Append(output, o1.dp))
            ELSE IF o1.dp.timestamp < o2.dp.timestamp
            THEN merge_loop(self, other, pos1 + 1, pos2, Append(output, o1.dp))
            ELSE merge_loop(self, other, pos1, pos2 + 1, Append(output, o2.dp))

merge(self, other) ==
    LET output == merge_loop(self, other, 0, 0, <<>>)
    IN  IF output.tag = "Ok" THEN Ok(from_datapoints(output.val)) ELSE Panic

\* TimeSeries::iter and TimeSeriesIter::next: the iterator after the call, and
\* the item it yields.
iter(self) == [ts |-> self, index |-> 0]

\* A variant of next that reads the position after the one it should.
TimeSeriesIter_next_off_by_one(self) ==
    IF self.index < len(self.ts)
    THEN [iter |-> [self EXCEPT !.index = self.index + 1],
          item |-> IF self.index + 1 < Len(self.ts.values)
                      /\ self.index + 1 < Len(self.ts.index.values)
                   THEN Some(DataPoint_new(self.ts.index.values[self.index + 2],
                                           self.ts.values[self.index + 2]))
                   ELSE Panic]
    ELSE [iter |-> self, item |-> None]

TimeSeriesIter_next(self) ==
    IF self.index < len(self.ts)
    THEN [iter |-> [self EXCEPT !.index = self.index + 1],
          item |-> IF self.index < Len(self.ts.values)
                   THEN Some(DataPoint_new(self.ts.index.values[self.index + 1],
                                           self.ts.values[self.index + 1]))
                   ELSE Panic]
    ELSE [iter |-> self, item |-> None]

\* Iterator::collect into a Vec: next until it yields None.
RECURSIVE collect(_, _)
collect(it, items) ==
    LET step == TimeSeriesIter_next(it)
    IN  IF step.item.tag = "None" THEN Ok(items)
        ELSE IF step.item.tag = "panic" THEN Panic
        ELSE collect(step.iter, Append(items, step.item.dp))

\* impl PartialEq for DateTimeIndex.
DateTimeIndex_eq(self, other) == self.values = other.values

\* impl PartialEq for TimeSeries, as written: the second conjunct compares
\* self.values with self.values.  Vec<f64> equality is element by element; no
\* value of the model is NaN, the one f64 that differs from itself.
TimeSeries_eq(self, other) ==
    DateTimeIndex_eq(self.index, other.index) /\ self.values = self.values

\* impl ToSeries for DateTimeIndex: each timestamp cast to a value.
to_series(self) ==
    TimeSeries_new(self.values, [k \in 1..Len(self.values) |-> self.values[k]])

(***************************************************************************)
(* The state: a client holds one series, ts, and calls the public          *)
(* operations on it.  A call records its name (op), its arguments other    *)
(* than ts (arg), the point sequence merge built (output) and its outcome  *)
(* (ret); the client then resumes, keeping a returned series as its ts.    *)
(* A call that panicked is never resumed: the program has aborted.         *)
(* The client may also hold an iterator over ts (it), which it walks with  *)
(* next.  The iterator borrows ts, so the client drops it before it calls  *)
(* anything that gives it a new ts; the model has it dropped before any    *)
(* other call, which loses nothing: no operation reads or changes it.      *)
(***************************************************************************)
VARIABLES ts, op, arg, output, ret, it

vars == <<ts, op, arg, output, ret, it>>

NoArg == [none |-> 0]

Idle ==
    /\ op = "idle"
    /\ arg = NoArg
    /\ output = <<>>
    /\ ret = None

Init ==
    /\ ts = empty
    /\ it = None
    /\ Idle

Call(name, a, out, r) ==
    /\ it.tag = "None"
    /\ op' = name
    /\ arg' = a
    /\ output' = out
    /\ ret' = r
    /\ UNCHANGED <<ts, it>>

ReturnsSeries == {"empty", "new", "from_datapoints", "from_iter", "diff", "merge",
                  "to_series"}

Resume ==
    /\ op # "idle"
    /\ ret.tag # "panic"
    /\ ts' = IF op \in ReturnsSeries THEN ret.val ELSE ts
    /\ it' = IF op = "iter" THEN ret ELSE it
    /\ op' = "idle"
    /\ arg' = NoArg
    /\ output' = <<>>
    /\ ret' = None

Empty ==
    /\ op = "idle"
    /\ Call("empty", NoArg, <<>>, Ok(empty))

New ==
    /\ op = "idle"
    /\ \E index \in SeqsUpTo(Timestamps, MaxLen), values \in SeqsUpTo(Vals, MaxLen) :
           Call("new", [index |-> index, values |-> values], <<>>,
                Ok(TimeSeries_new(index, values)))

FromDatapoints ==
    /\ op = "idle"
    /\ \E datapoints \in SeqsUpTo(DataPoints, MaxLen) :
           Call("from_datapoints", [datapoints |-> datapoints], <<>>,
                Ok(from_datapoints(datapoints)))

\* ts.iter().collect()
Collect ==
    /\ op = "idle"
    /\ LET items == collect(iter(ts), <<>>)
       IN  Call("from_iter", [items |-> items], <<>>,
                IF items.tag = "Ok" THEN Ok(from_iter(items.val)) ELSE Panic)

\* diff subtracts: it is called only on values of the input range, which caps
\* the values the model reaches.
Diff ==
    /\ op = "idle"
    /\ \A k \in 1..Len(ts.values) : ts.values[k] \in Vals
    /\ Call("diff", NoArg, <<>>, diff(ts))

Merge(other) ==
    LET out == merge_loop(ts, other, 0, 0, <<>>)
    IN  Call("merge", [other |-> other],
             IF out.tag = "Ok" THEN out.val ELSE <<>>, merge(ts, other))

MergeNew ==
    /\ op = "idle"
    /\ \E index \in SeqsUpTo(Timestamps, MaxLen) :
           \E values \in [1..Len(index) -> Vals] :
               Merge(TimeSeries_new(index, values))

MergeEmpty ==
    /\ op = "idle"
    /\ Merge(empty)

MergeSelf ==
    /\ op = "idle"
    /\ Merge(ts)

ToSeries ==
    /\ op = "idle"
    /\ Call("to_series", NoArg, <<>>, Ok(to_series(ts.index)))

Nth ==
    /\ op = "idle"
    /\ \E pos \in Positions : Call("nth", [pos |-> pos], <<>>, nth(ts, pos))

At ==
    /\ op = "idle"
    /\ \E timestamp \in Queries :
           Call("at", [timestamp |-> timestamp], <<>>, at(ts, timestamp))

IndexAt ==
    /\ op = "idle"
    /\ \E pos \in Positions :
           Call("index", [pos |-> pos], <<>>, DateTimeIndex_index(ts.index, pos))

\* ts == other, other built by new.
Eq ==
    /\ op = "idle"
    /\ \E index \in SeqsUpTo(Timestamps, MaxLen) :
           \E values \in [1..Len(index) -> Vals] :
               LET other == TimeSeries_new(index, values)
               IN  Call("eq", [other |-> other], <<>>, Ok(TimeSeries_eq(ts, other)))

\* ts.iter(): a fresh iterator, which replaces the one the client held.
Iter ==
    /\ op = "idle"
    /\ op' = "iter"
    /\ arg' = NoArg
    /\ output' = <<>>
    /\ ret' = Ok(iter(ts))
    /\ UNCHANGED <<ts, it>>

\* it.next(): arg keeps the iterator as it was before the call.
IterNext ==
    /\ op = "idle"
    /\ it.tag = "Ok"
    /\ LET step == TimeSeriesIter_next(it.val)
       IN  /\ op' = "next"
           /\ arg' = [iter |-> it.val]
           /\ output' = <<>>
           /\ ret' = step.item
           /\ it' = Ok(step.iter)
    /\ UNCHANGED ts

\* The iterator goes out of scope.
DropIter ==
    /\ op = "idle"
    /\ it.tag = "Ok"
    /\ it' = None
    /\ UNCHANGED <<ts, op, arg, output, ret>>

Next ==
    \/ Empty
    \/ New
    \/ FromDatapoints
    \/ Collect
    \/ Diff
    \/ MergeNew
    \/ MergeEmpty
    \/ MergeSelf
    \/ ToSeries
    \/ Nth
    \/ At
    \/ IndexAt
    \/ Eq
    \/ Iter
    \/ IterNext
    \/ DropIter
    \/ Resume

Spec == Init /\ [][Next]_vars


(***************************************************************************)
(* What the claims speak of, stated without the code's loops.              *)
(***************************************************************************)
StrictlyIncreasing(s) == \A i \in 1..(Len(s) - 1) : s[i] < s[i + 1]

Range(s) == {s[i] : i \in 1..Len(s)}

MinOf(x, y) == IF x < y THEN x ELSE y

\* The length of the longest strictly increasing prefix of s.
IncreasingPrefixLen(s) ==
    CHOOSE k \in 0..Len(s) :
        /\ StrictlyIncreasing(SubSeq(s, 1, k))
        /\ \A j \in (k + 1)..Len(s) : ~StrictlyIncreasing(SubSeq(s, 1, j))

TimestampsOf(datapoints) == [i \in 1..Len(datapoints) |-> datapoints[i].timestamp]

ValuesOf(datapoints) == [i \in 1..Len(datapoints) |-> datapoints[i].value]

\* The value a series with a duplicate-free index holds at timestamp t.
ValueAt(series, t) ==
    series.values[CHOOSE i \in 1..Len(series.index.values) : series.index.values[i] = t]

\* The call in progress returned a series.
Returned(name) == op = name /\ ret.tag = "Ok"

C2_IndexStrictlyIncreasing ==
    /\ StrictlyIncreasing(ts.index.values)
    /\ (op \in ReturnsSeries /\ ret.tag = "Ok")
           => StrictlyIncreasing(ret.val.index.values)

(***************************************************************************)
(* C3                                                                      *)
(***************************************************************************)
\* C3: every series that exists has as many values as timestamps, and len()
\* is that number.
C3_LengthsAgree ==
    /\ len(ts) = Len(ts.index.values)
    /\ Len(ts.index.values) = Len(ts.values)
    /\ (op \in ReturnsSeries /\ ret.tag = "Ok") =>
           /\ len(ret.val) = Len(ret.val.index.values)
           /\ Len(ret.val.index.values) = Len(ret.val.values)

\* new was given more values than timestamps.
C3_Witness ==
    /\ Returned("new")
    /\ Len(arg.values) > Len(arg.index)
    /\ Len(arg.index) > 0
    /\ Len(ret.val.values) = Len(arg.index)

C5_MergeOutputIncreasing ==
    op = "merge" =>
        /\ ret.tag = "Ok"
        /\ StrictlyIncreasing(TimestampsOf(output))
        /\ ret.val.index.values = TimestampsOf(output)
        /\ ret.val.values = ValuesOf(output)

(***************************************************************************)
(* C6                                                                      *)
(***************************************************************************)
\* C6: a.merge(empty) and a.merge(a) have the index and the values of a.
C6_MergeEmptyOrSelfIsIdentity ==
    (op = "merge" /\ arg.other \in {empty, ts}) =>
        /\ ret.tag = "Ok"
        /\ ret.val.index.values = ts.index.values
        /\ ret.val.values = ts.values

(***************************************************************************)
(* C7                                                                      *)
(***************************************************************************)
\* C7: from_datapoints(D) holds exactly the longest prefix of D whose
\* timestamps are strictly increasing, with its values, and nothing after it.
C7_FromDatapointsIncreasingPrefix ==
    op = "from_datapoints" =>
        LET k == IncreasingPrefixLen(TimestampsOf(arg.datapoints))
        IN  /\ ret.tag = "Ok"
            /\ ret.val.index.values = SubSeq(TimestampsOf(arg.datapoints), 1, k)
            /\ ret.val.values = SubSeq(ValuesOf(arg.datapoints), 1, k)

\* from_datapoints was given a repeated timestamp and cut the sequence there.
C7_Witness ==
    /\ Returned("from_datapoints")
    /\ Len(arg.datapoints) = MaxLen
    /\ arg.datapoints[MaxLen].timestamp = arg.datapoints[MaxLen - 1].timestamp
    /\ len(ret.val) = MaxLen - 1

(***************************************************************************)
(* C8                                                                      *)
(***************************************************************************)
\* C8: at(t) is the value at pos-1, pos being the first position whose
\* timestamp exceeds t (len() if none does); it is the last value when t is at
\* or after the last timestamp, 0.0 when t precedes every timestamp or the
\* series is empty; and it reads nothing outside the values.
C8_AtStepLookup ==
    op = "at" =>
        LET index == ts.index.values
            t == arg.timestamp
            later == {i \in 1..Len(index) : t < index[i]}
            pos == IF later = {} THEN Len(index)
                   ELSE (CHOOSE i \in later : \A j \in later : i <= j) - 1
        IN  /\ ret.tag = "Ok"
            /\ ret.val = IF pos > 0 THEN ts.values[pos] ELSE 0
            /\ (Len(index) > 0 /\ t >= index[Len(index)])
                   => ret.val = ts.values[Len(index)]
            /\ (\A i \in 1..Len(index) : t < index[i]) => ret.val = 0

(***************************************************************************)
(* C9                                                                      *)
(***************************************************************************)
\* C9: nth(pos) is None exactly when pos >= len(), and otherwise the pair
\* (index[pos], values[pos]); it never panics.
C9_NthOption ==
    op = "nth" =>
        /\ ret.tag # "panic"
        /\ (ret.tag = "None") <=> (arg.pos >= len(ts))
        /\ arg.pos < len(ts) =>
               /\ ret.tag = "Some"
               /\ ret.dp.timestamp = ts.index.values[arg.pos + 1]
               /\ ret.dp.value = ts.values[arg.pos + 1]

\* nth was asked for the position just past the end of a non-empty series.
C9_Witness ==
    /\ op = "nth"
    /\ len(ts) > 0
    /\ arg.pos = len(ts)
    /\ ret.tag = "None"

(***************************************************************************)
(* C10                                                                     *)
(***************************************************************************)
\* C10, as claimed: index[pos] with pos >= length yields an absent outcome the
\* caller can branch on, and does not abort.
C10_IndexBoundsChecked ==
    (op = "index" /\ arg.pos >= Len(ts.index.values)) => ret.tag = "None"

\* C10, amended: index[pos] is the timestamp at pos when pos < length, and a
\* panic, which aborts the program, when pos >= length.
C10_IndexPanicsOutOfRange ==
    op = "index" =>
        IF arg.pos < Len(ts.index.values)
        THEN ret.tag = "Ok" /\ ret.val = ts.index.values[arg.pos + 1]
        ELSE ret.tag = "panic"

\* The index of a non-empty series was read just past its end, and panicked.
C10_Witness ==
    /\ op = "index"
    /\ Len(ts.index.values) > 0
    /\ arg.pos = Len(ts.index.values)
    /\ ret.tag = "panic"


(***************************************************************************)
(* C11                                                                     *)
(***************************************************************************)
\* What C11 says of the series diff returned, given the series S it was
\* called on.
DiffOf(S, r) ==
    LET n == Len(S.index.values)
    IN  /\ Len(r.index.values) = (IF n >= 1 THEN n - 1 ELSE 0)
        /\ Len(r.values) = Len(r.index.values)
        /\ n >= 2 => \A i \in 1..(n - 1) :
               /\ r.index.values[i] = S.index.values[i + 1]
               /\ r.values[i] = S.values[i + 1] - S.values[i]
        /\ n < 2 => (r.index.values = <<>> /\ r.values = <<>>)

\* C11: S.diff() has length max(0, len(S)-1); its index is S's without the
\* first timestamp, its value at i-1 is S.values[i] - S.values[i-1]; it is the
\* empty series for len(S) < 2; and the call leaves S as it was.
C11_DiffFirstDifference ==
    [][op' = "diff" => (/\ ts' = ts
                        /\ ret'.tag = "Ok"
                        /\ DiffOf(ts, ret'.val))]_vars

\* diff was called on a series of the longest input length whose last two
\* values differ.
C11_Witness ==
    /\ Returned("diff")
    /\ len(ts) = MaxLen
    /\ ts.values[MaxLen] # ts.values[MaxLen - 1]
    /\ len(ret.val) = MaxLen - 1


(***************************************************************************)
(* C12                                                                     *)
(***************************************************************************)
\* C12: new with an index and values of different lengths returns a series of
\* exactly the index's length, in which the given values keep their positions
\* and every position past the end of the given values holds 0.0.
C12_NewDifferentLengthsPads ==
    (op = "new" /\ Len(arg.index) # Len(arg.values)) =>
        /\ ret.tag = "Ok"
        /\ len(ret.val) = Len(arg.index)
        /\ Len(ret.val.values) = Len(arg.index)
        /\ \A k \in 1..Len(arg.index) :
               /\ k <= Len(arg.values) => ret.val.values[k] = arg.values[k]
               /\ k > Len(arg.values) => ret.val.values[k] = 0

\* As in the test: more timestamps than values, a given value that is not 0.0
\* kept in place, and 0.0 in the last position.
C12_Witness ==
    /\ Returned("new")
    /\ Len(arg.index) = MaxLen
    /\ Len(arg.values) = MaxLen - 1
    /\ arg.values[MaxLen - 1] # 0
    /\ len(ret.val) = MaxLen
    /\ ret.val.values[MaxLen - 1] = arg.values[MaxLen - 1]
    /\ ret.val.values[MaxLen] = 0


(***************************************************************************)
(* C13                                                                     *)
(***************************************************************************)
\* The pairs (index[i], values[i]) of a series, in position order.
PairsOf(S) ==
    [i \in 1..Len(S.index.values) |-> DataPoint_new(S.index.values[i], S.values[i])]

\* C13: a fresh iterator starts at position 0 of S, whatever iterator was held
\* before; next at position i < len(S) yields the pair at i and moves to i+1,
\* and at len(S) yields None and stays, so that iterating yields exactly the
\* len(S) pairs in position order and then ends; collecting them gives those
\* pairs, and for a strictly increasing index a series with the index and the
\* values of S.
C13_IterationRoundTrip ==
    /\ it.tag = "Ok" => (it.val.ts = ts /\ it.val.index \in 0..len(ts))
    /\ op = "iter" => (ret.tag = "Ok" /\ ret.val.ts = ts /\ ret.val.index = 0)
    /\ op = "next" =>
           LET i == arg.iter.index
           IN  IF i < len(ts)
               THEN /\ ret.tag = "Some"
                    /\ ret.dp = PairsOf(ts)[i + 1]
                    /\ it.val.index = i + 1
               ELSE /\ ret.tag = "None"
                    /\ it.val.index = i
    /\ op = "from_iter" =>
           /\ arg.items.tag = "Ok"
           /\ arg.items.val = PairsOf(ts)
           /\ ret.tag = "Ok"
           /\ StrictlyIncreasing(ts.index.values) =>
                  /\ ret.val.index.values = ts.index.values
                  /\ ret.val.values = ts.values

\* A series of the longest input length with a strictly increasing index and
\* a value that is not 0.0 was iterated and collected.
C13_Witness ==
    /\ Returned("from_iter")
    /\ len(ts) = MaxLen
    /\ StrictlyIncreasing(ts.index.values)
    /\ ts.values[MaxLen] # 0
    /\ Len(arg.items.val) = MaxLen
    /\ len(ret.val) = MaxLen


(***************************************************************************)
(* C14                                                                     *)
(***************************************************************************)
\* C14: two series are equal exactly when their indexes are equal and their
\* values are equal element by element; with the same index and a different
\* value at some position they are unequal.
C14_EqComparesIndexAndValues ==
    op = "eq" =>
        /\ ret.tag = "Ok"
        /\ ret.val <=> (/\ ts.index.values = arg.other.index.values
                        /\ ts.values = arg.other.values)

====
